---- MODULE Spec2Model ----
(***************************************************************************)
(* The MongoDB persistence layer of the user service (db/mongodb).         *)
(* Three collections (customers, addresses, cards) are kept consistent by  *)
(* sequences of single-document store calls.  Every store call is one step *)
(* of the operation that issues it and may fail; a failed call leaves the  *)
(* collection it addressed unchanged.                                      *)
(***************************************************************************)
EXTENDS Integers, Sequences, FiniteSets, TLC

(* ------------------------------ bounds --------------------------------- *)
\* Bytes of an ObjectId (12 in bson, scaled down).
IdBytes == 1
\* ObjectIds bson.NewObjectId hands out before the model stops creating.
MaxIds == 3
\* Nested cards / nested addresses carried by one CreateUser payload.
MaxNested == 2

Procs == {1, 2}
SeqProcs == {1}
Usernames == {"alice", "bob"}
Data == {"X"}

(* --------------------------- identifier codec -------------------------- *)
HexDigits == <<"0", "1", "2", "3", "4", "5", "6", "7",
               "8", "9", "a", "b", "c", "d", "e", "f">>

HexChars == {HexDigits[i] : i \in 1..16}

DigitVal(c) == (CHOOSE i \in 1..16 : HexDigits[i] = c) - 1

\* Mutant: one hex digit per byte, the high digit dropped.
HexUnpadded(id) == [i \in 1..Len(id) |-> HexDigits[(id[i] % 16) + 1]]

\* id.Hex(): two lower-case hex digits per byte; the zero ObjectId gives "".
Hex(id) ==
  [i \in 1..(2 * Len(id)) |->
     IF i % 2 = 1 THEN HexDigits[(id[(i + 1) \div 2] \div 16) + 1]
                  ELSE HexDigits[(id[i \div 2] % 16) + 1]]

\* bson.IsObjectIdHex(s): exactly 2*IdBytes characters, all hex digits.
IsObjectIdHex(s) ==
  /\ Len(s) = 2 * IdBytes
  /\ \A i \in 1..Len(s) : s[i] \in HexChars

\* bson.ObjectIdHex(s), only ever called on strings IsObjectIdHex accepts.
ObjectIdHex(s) ==
  [i \in 1..(Len(s) \div 2) |-> 16 * DigitVal(s[2 * i - 1]) + DigitVal(s[2 * i])]

RECURSIVE Pow256(_)
Pow256(n) == IF n = 0 THEN 1 ELSE 256 * Pow256(n - 1)

\* The n-th ObjectId bson.NewObjectId generates: distinct for distinct n.
NewObjectId(n) == [i \in 1..IdBytes |-> (n \div Pow256(IdBytes - i)) % 256]

IdNum(id) == IF Len(id) = 0 THEN 0 ELSE id[Len(id)] + 256 * (IF Len(id) > 1 THEN id[Len(id) - 1] ELSE 0)

KnownIds == {NewObjectId(n) : n \in 1..MaxIds}

\* Strings bson.IsObjectIdHex rejects: empty, too short, not hexadecimal.
NotHex == [i \in 1..(2 * IdBytes) |-> "z"]

Malformed == {<<>>, <<"0">>, NotHex}

InputIds == {Hex(id) : id \in KnownIds} \cup Malformed

(* ------------------------------ errors --------------------------------- *)
\* A Go error is the sequence of the messages it carries; nil is <<>>.
Nil == <<>>
ErrInvalidHexID == <<"Invalid Id Hex">>
ErrNotFound == <<"not found">>
ErrDuplicateKey == <<"E11000 duplicate key">>
\* The error of a store call that failed (network, server), per collection.
StoreErr(coll) ==
  CASE coll = "customers" -> <<"customers: i/o failure">>
    [] coll = "addresses" -> <<"addresses: i/o failure">>
    [] coll = "cards" -> <<"cards: i/o failure">>

\* fmt's %v of an error.
Msg(e) == IF e = Nil THEN "<nil>" ELSE e[1]

\* fmt.Errorf("%v %v", carderr, addrerr)
AttrErrorf(carderr, addrerr) == <<Msg(carderr), Msg(addrerr)>>

(* --------------------------- values and maps --------------------------- *)
\* users.New(): the empty user value.
NewUser == [UserID |-> <<>>, Username |-> "", Addresses |-> <<>>, Cards |-> <<>>]

\* users.Address{} / users.Card{}: the empty nested value.
NewItem == [ID |-> <<>>, data |-> ""]

\* mongodb.New(): zero ObjectId, empty reference lists.
New == [ID |-> <<>>, AddressIDs |-> <<>>, CardIDs |-> <<>>]

Range(s) == {s[i] : i \in 1..Len(s)}

MapPut(f, k, v) == [x \in (DOMAIN f) \cup {k} |-> IF x = k THEN v ELSE f[x]]

MapDrop(f, S) == [x \in (DOMAIN f) \ S |-> f[x]]

RECURSIVE SeqWithout(_, _)
SeqWithout(s, x) ==
  IF s = <<>> THEN <<>>
  ELSE IF Head(s) = x THEN SeqWithout(Tail(s), x)
       ELSE <<Head(s)>> \o SeqWithout(Tail(s), x)

RECURSIVE SortedIds(_)
SortedIds(S) ==
  IF S = {} THEN <<>>
  ELSE LET m == CHOOSE x \in S : \A y \in S : IdNum(x) <= IdNum(y)
       IN <<m>> \o SortedIds(S \ {m})

\* A nested item of a payload: no id yet.
NestedInputs ==
  UNION {[1..n -> [ID : {<<>>}, data : Data]] : n \in 0..MaxNested}

(* ------------------------------- state --------------------------------- *)
VARIABLES
  customers,   \* collection "customers": ObjectId -> stored MongoUser
  addresses,   \* collection "addresses": ObjectId -> stored address
  cards,       \* collection "cards": ObjectId -> stored card
  nextId,      \* number of the next ObjectId bson.NewObjectId returns
  proc,        \* per request: the storage operation it runs and its locals
  removed,     \* history: the deletes that returned nil with no store call failing
  traceContext \* the package-level tracing context of the storage layer

vars == <<customers, addresses, cards, nextId, proc, removed, traceContext>>

\* context.Background(), and the context of request p.
Background == <<>>
RequestContext(p) == <<p>>

\* History of a Delete: who referenced the entity, and what the user
\* referenced, when the delete started.
NoSnap == [exists |-> FALSE, owners |-> {}, addresses |-> {}, cards |-> {}]

Idle ==
  [op |-> "idle", pc |-> "idle", entity |-> "", id |-> <<>>, userid |-> <<>>,
   u |-> NewUser, mu |-> New, carderr |-> Nil, addrerr |-> Nil, err |-> Nil,
   item |-> NewItem, k |-> 0, leases |-> 0, log |-> <<>>, snap |-> NoSnap,
   name |-> "", arg |-> NewUser, span |-> Background]

\* The first lines of every storage operation: the parent span is read from
\* the package-level context.
Entered == [Idle EXCEPT !.span = traceContext]

Init ==
  /\ customers = <<>>
  /\ addresses = <<>>
  /\ cards = <<>>
  /\ nextId = 1
  /\ proc = [p \in Procs |-> Idle]
  /\ removed = {}
  /\ traceContext = Background

\* Mutant: the bulk removal removes nothing.
RemoveAllNothing(coll, ids) == coll

\* mgo RemoveAll({"_id": {"$in": ids}}): every listed document is gone.
RemoveAll(coll, ids) == MapDrop(coll, ids)

\* Mutant: the id of a created document is not collected.
CollectIdLost(ids, id) == ids

\* ids = append(ids, id)
CollectId(ids, id) == Append(ids, id)

\* Mutant: a return path that leaves the session copies open.
DeferredCloseSkipped(n) == n

\* defer s.Close(): as the operation returns, every session it copied is
\* closed, whatever the return path.
DeferredClose(n) == 0

\* One store call of an operation, as recorded in its log.
\* ok: the call did what it was asked; fault: the store itself failed.
Call(name, coll, ids, ok) ==
  [call |-> name, coll |-> coll, ids |-> ids, ok |-> ok, fault |-> ~ok]

\* A call the store answered, with a result that depends on the data.
Answered(c, ok) == [c EXCEPT !.fault = ~ok]

Logged(r, c) == [r EXCEPT !.log = Append(@, c)]

Set(p, r) == proc' = [proc EXCEPT ![p] = r]

\* ObjectIds the running operations will still ask bson.NewObjectId for.
Pending(r) ==
  CASE r.pc = "cu_card" -> (Len(r.u.Cards) - r.k + 1) + Len(r.u.Addresses)
    [] r.pc = "cu_addr" -> Len(r.u.Addresses) - r.k + 1
    [] OTHER -> 0

RECURSIVE SumPending(_)
SumPending(S) ==
  IF S = {} THEN 0
  ELSE LET q == CHOOSE x \in S : TRUE
       IN Pending(proc[q]) + SumPending(S \ {q})

CanAllocate(n) == (nextId - 1) + SumPending(Procs) + n <= MaxIds

(* ------------------------------ endpoints ------------------------------ *)
\* endpoints.go: every endpoint first hands its request's context to the
\* storage layer, which keeps it in the package-level variable.
SetTraceContext(p) ==
  /\ proc[p].op = "idle"
  /\ traceContext' = RequestContext(p)
  /\ Set(p, [Idle EXCEPT !.op = "endpoint", !.pc = "endpoint"])
  /\ UNCHANGED <<customers, addresses, cards, nextId, removed>>

(* ------------------------------ CreateUser ----------------------------- *)
\* History of a CreateUser: the documents that had the username when the
\* call started, and what they referenced.
NameSnapshot(name) ==
  LET H == {x \in DOMAIN customers : customers[x].username = name}
  IN [exists |-> H /= {}, owners |-> H,
      addresses |-> UNION {Range(customers[x].addresses) : x \in H},
      cards |-> UNION {Range(customers[x].cards) : x \in H}]

\* Where CreateUser goes once createCards has returned.
AfterCards(r) ==
  IF Len(r.u.Addresses) > 0
  THEN [r EXCEPT !.pc = "cu_addr", !.k = 1]
  ELSE [r EXCEPT !.pc = "cu_user", !.k = 0, !.leases = 1]

\* Where CreateUser goes once createAddresses has returned.
AfterAddresses(r) == [r EXCEPT !.pc = "cu_user", !.k = 0, !.leases = 1]

\* Lines 133-141: copy the session, generate the user's id, enter createCards.
StartCreateUser(p) ==
  \E name \in Usernames, as \in NestedInputs, cs \in NestedInputs :
    /\ proc[p].op = "endpoint"
    /\ CanAllocate(1 + Len(as) + Len(cs))
    /\ LET r == [Entered EXCEPT !.op = "CreateUser",
                             !.u = [UserID |-> <<>>, Username |-> name,
                                    Addresses |-> as, Cards |-> cs],
                             !.arg = [UserID |-> <<>>, Username |-> name,
                                      Addresses |-> as, Cards |-> cs],
                             !.mu = [New EXCEPT !.ID = NewObjectId(nextId)],
                             !.snap = NameSnapshot(name),
                             !.leases = 2]
       IN Set(p, IF Len(cs) > 0 THEN [r EXCEPT !.pc = "cu_card", !.k = 1]
                               ELSE AfterCards(r))
    /\ nextId' = nextId + 1
    /\ UNCHANGED <<customers, addresses, cards, removed, traceContext>>

\* createCards, one iteration of the loop: UpsertId of card k.
\* A failed upsert returns from createCards with the ids collected so far.
CreateCardsStep(p) ==
  LET r == proc[p]
      id == NewObjectId(nextId)
  IN /\ r.op = "CreateUser" /\ r.pc = "cu_card"
     /\ nextId' = nextId + 1
     /\ \E ok \in BOOLEAN :
          LET l == Logged(r, Call("upsert", "cards", {id}, ok))
          IN IF ok
             THEN /\ cards' = MapPut(cards, id, r.u.Cards[r.k].data)
                  /\ LET n == [l EXCEPT !.mu.CardIDs = CollectId(@, id),
                                        !.u.Cards[r.k].ID = Hex(id),
                                        !.k = r.k + 1]
                     IN Set(p, IF n.k > Len(n.u.Cards) THEN AfterCards(n) ELSE n)
             ELSE /\ cards' = cards
                  /\ Set(p, AfterCards([l EXCEPT !.carderr = StoreErr("cards")]))
     /\ UNCHANGED <<customers, addresses, removed, traceContext>>

\* createAddresses, one iteration of the loop: UpsertId of address k.
CreateAddressesStep(p) ==
  LET r == proc[p]
      id == NewObjectId(nextId)
  IN /\ r.op = "CreateUser" /\ r.pc = "cu_addr"
     /\ nextId' = nextId + 1
     /\ \E ok \in BOOLEAN :
          LET l == Logged(r, Call("upsert", "addresses", {id}, ok))
          IN IF ok
             THEN /\ addresses' = MapPut(addresses, id, r.u.Addresses[r.k].data)
                  /\ LET n == [l EXCEPT !.mu.AddressIDs = CollectId(@, id),
                                        !.u.Addresses[r.k].ID = Hex(id),
                                        !.k = r.k + 1]
                     IN Set(p, IF n.k > Len(n.u.Addresses) THEN AfterAddresses(n) ELSE n)
             ELSE /\ addresses' = addresses
                  /\ Set(p, AfterAddresses([l EXCEPT !.addrerr = StoreErr("addresses")]))
     /\ UNCHANGED <<customers, cards, removed, traceContext>>

\* Mutant: no unique index on username.
DuplicateUsernameNever(name, id) == FALSE

\* The unique index on username (EnsureIndexes) rejects a second document
\* with a username another document already has.
DuplicateUsername(name, id) ==
  \E x \in DOMAIN customers : x /= id /\ customers[x].username = name

\* Mutant: only the card error is looked at.
AttrResultCardOnly(r) ==
  IF r.carderr /= Nil
  THEN [r EXCEPT !.err = AttrErrorf(r.carderr, r.addrerr)]
  ELSE [r EXCEPT !.err = Nil, !.u.UserID = Hex(r.mu.ID)]

\* Lines 155-161: the result of CreateUser once the user upsert succeeded.
AttrResult(r) ==
  IF r.carderr /= Nil \/ r.addrerr /= Nil
  THEN [r EXCEPT !.err = AttrErrorf(r.carderr, r.addrerr)]
  ELSE [r EXCEPT !.err = Nil, !.u.UserID = Hex(r.mu.ID)]

\* Lines 143-161: UpsertId of the user record with the collected ids.
UpsertUser(p) ==
  LET r == proc[p]
  IN /\ r.op = "CreateUser" /\ r.pc = "cu_user"
     /\ \E ok \in BOOLEAN :
          LET good == ok /\ ~DuplicateUsername(r.u.Username, r.mu.ID)
              l == Logged(r, Answered(Call("upsert", "customers", {r.mu.ID}, good), ok))
          IN IF good
             THEN /\ customers' = MapPut(customers, r.mu.ID,
                                         [username |-> r.u.Username,
                                          addresses |-> r.mu.AddressIDs,
                                          cards |-> r.mu.CardIDs])
                  /\ Set(p, [AttrResult(l) EXCEPT !.pc = "done", !.leases = DeferredClose(@)])
             ELSE /\ customers' = customers
                  /\ Set(p, [l EXCEPT !.err = IF ok THEN ErrDuplicateKey
                                                   ELSE StoreErr("customers"),
                                      !.pc = "cu_clean_addr", !.leases = 2])
     /\ UNCHANGED <<addresses, cards, nextId, removed, traceContext>>

\* Mutant: a cleanup error replaces the error of the user upsert.
CleanupErrorReturned(r, err) == IF err = Nil THEN r ELSE [r EXCEPT !.err = err]

\* Lines 148-151: the error of cleanAttributes is ignored; the error of the
\* user upsert is the one CreateUser returns.
CleanupError(r, err) == r

\* cleanAttributes, line 205: RemoveAll of the addresses just created.
CleanAddresses(p) ==
  LET r == proc[p]
      ids == Range(r.mu.AddressIDs)
  IN /\ r.op = "CreateUser" /\ r.pc = "cu_clean_addr"
     /\ \E ok \in BOOLEAN :
          /\ addresses' = IF ok THEN RemoveAll(addresses, ids) ELSE addresses
          /\ Set(p, [CleanupError(Logged(r, Call("removeAll", "addresses", ids, ok)),
                                   IF ok THEN Nil ELSE StoreErr("addresses"))
                       EXCEPT !.pc = "cu_clean_card"])
     /\ UNCHANGED <<customers, cards, nextId, removed, traceContext>>

\* cleanAttributes, line 207: RemoveAll of the cards just created; its error
\* is dropped by CreateUser, which returns the upsert's error.
CleanCards(p) ==
  LET r == proc[p]
      ids == Range(r.mu.CardIDs)
  IN /\ r.op = "CreateUser" /\ r.pc = "cu_clean_card"
     /\ \E ok \in BOOLEAN :
          /\ cards' = IF ok THEN RemoveAll(cards, ids) ELSE cards
          /\ Set(p, [CleanupError(Logged(r, Call("removeAll", "cards", ids, ok)),
                                   IF ok THEN Nil ELSE StoreErr("cards"))
                       EXCEPT !.pc = "done", !.leases = DeferredClose(@)])
     /\ UNCHANGED <<customers, addresses, nextId, removed, traceContext>>

(* ------------------------- GetUser, AddUserIDs ------------------------- *)
\* Mutant: the card references are not copied into the user value.
AddUserIDsNoCards(id, doc) ==
  [UserID |-> Hex(id),
   Username |-> doc.username,
   Addresses |-> [i \in 1..Len(doc.addresses) |-> [ID |-> Hex(doc.addresses[i]), data |-> ""]],
   Cards |-> <<>>]

\* Mutant: the user's own id is not written into the user value.
AddUserIDsNoUserID(id, doc) ==
  [UserID |-> <<>>,
   Username |-> doc.username,
   Addresses |-> [i \in 1..Len(doc.addresses) |-> [ID |-> Hex(doc.addresses[i]), data |-> ""]],
   Cards |-> [i \in 1..Len(doc.cards) |-> [ID |-> Hex(doc.cards[i]), data |-> ""]]]

\* MongoUser.AddUserIDs: every reference id and the user's id in string form.
AddUserIDs(id, doc) ==
  [UserID |-> Hex(id),
   Username |-> doc.username,
   Addresses |-> [i \in 1..Len(doc.addresses) |-> [ID |-> Hex(doc.addresses[i]), data |-> ""]],
   Cards |-> [i \in 1..Len(doc.cards) |-> [ID |-> Hex(doc.cards[i]), data |-> ""]]]

\* Lines 274-282: FindId(...).One(&mu), then AddUserIDs on whatever mu holds.
FindUser(id, ok) ==
  IF ~ok THEN [u |-> NewUser, err |-> StoreErr("customers")]
  ELSE IF id \notin DOMAIN customers THEN [u |-> NewUser, err |-> ErrNotFound]
  ELSE [u |-> AddUserIDs(id, customers[id]), err |-> Nil]

\* Lines 266-273: a malformed id returns before the store is asked.
StartGetUser(p) ==
  \E id \in InputIds :
    /\ proc[p].op = "endpoint"
    /\ Set(p, IF IsObjectIdHex(id)
              THEN [Entered EXCEPT !.op = "GetUser", !.id = id, !.pc = "gu_find",
                                !.leases = 1]
              ELSE [Entered EXCEPT !.op = "GetUser", !.id = id, !.pc = "done",
                                   !.err = ErrInvalidHexID,
                                   !.leases = DeferredClose(1)])
    /\ UNCHANGED <<customers, addresses, cards, nextId, removed, traceContext>>

GetUserFind(p) ==
  LET r == proc[p]
      id == ObjectIdHex(r.id)
  IN /\ r.op = "GetUser" /\ r.pc = "gu_find"
     /\ \E ok \in BOOLEAN :
          LET f == FindUser(id, ok)
          IN Set(p, [Logged(r, Call("find", "customers", {id}, ok))
                       EXCEPT !.u = f.u, !.err = f.err, !.pc = "done", !.leases = DeferredClose(@)])
     /\ UNCHANGED <<customers, addresses, cards, nextId, removed, traceContext>>

(* ----------------------------- GetUserByName --------------------------- *)
\* Lines 241-250: Find({"username": name}).One(&mu), then AddUserIDs on
\* whatever mu holds.
FindUserByName(name, ok) ==
  LET H == {x \in DOMAIN customers : customers[x].username = name}
  IN IF ~ok THEN [u |-> NewUser, err |-> StoreErr("customers")]
     ELSE IF H = {} THEN [u |-> NewUser, err |-> ErrNotFound]
     ELSE LET x == Head(SortedIds(H))
          IN [u |-> AddUserIDs(x, customers[x]), err |-> Nil]

\* Lines 237-240: copy the session.
StartGetUserByName(p) ==
  \E name \in Usernames :
    /\ proc[p].op = "endpoint"
    /\ Set(p, [Entered EXCEPT !.op = "GetUserByName", !.name = name,
                               !.pc = "gn_find", !.leases = 1])
    /\ UNCHANGED <<customers, addresses, cards, nextId, removed, traceContext>>

GetUserByNameFind(p) ==
  LET r == proc[p]
  IN /\ r.op = "GetUserByName" /\ r.pc = "gn_find"
     /\ \E ok \in BOOLEAN :
          LET f == FindUserByName(r.name, ok)
              H == {x \in DOMAIN customers : customers[x].username = r.name}
          IN Set(p, [Logged(r, Call("find", "customers", H, ok))
                       EXCEPT !.u = f.u, !.err = f.err, !.pc = "done",
                              !.leases = DeferredClose(@)])
     /\ UNCHANGED <<customers, addresses, cards, nextId, removed, traceContext>>

(* --------------------------- GetUserAttributes ------------------------- *)
RefsWellFormed(items) == \A i \in 1..Len(items) : IsObjectIdHex(items[i].ID)

RefIds(items) == {ObjectIdHex(items[i].ID) : i \in 1..Len(items)}

\* Mutant: an id with no document yields an empty item.
HydrateKeepMissing(coll, ids) ==
  LET asked == SortedIds(ids)
  IN [i \in 1..Len(asked) |->
        [ID |-> Hex(asked[i]),
         data |-> IF asked[i] \in DOMAIN coll THEN coll[asked[i]] ELSE ""]]

\* Find({"_id": {"$in": ids}}).All: the documents that exist, each with its id.
Hydrate(coll, ids) ==
  LET found == SortedIds(ids \cap DOMAIN coll)
  IN [i \in 1..Len(found) |-> [ID |-> Hex(found[i]), data |-> coll[found[i]]]]

\* User values a caller may pass: what GetUser returns for a stored user, or a
\* value with one reference of its own making (stale or malformed).
AttrInputs ==
  {AddUserIDs(x, customers[x]) : x \in DOMAIN customers}
  \cup {[UserID |-> <<>>, Username |-> "", Addresses |-> a, Cards |-> c] :
          a \in {<<>>} \cup {<<[ID |-> s, data |-> ""]>> : s \in InputIds},
          c \in {<<>>, <<[ID |-> NotHex, data |-> ""]>>}}

\* Lines 329-345: decode the address references.
StartGetUserAttributes(p) ==
  \E u \in AttrInputs :
    /\ proc[p].op = "endpoint"
    /\ Set(p, IF RefsWellFormed(u.Addresses)
              THEN [Entered EXCEPT !.op = "GetUserAttributes", !.u = u, !.arg = u,
                                   !.pc = "ga_addr", !.leases = 1]
              ELSE [Entered EXCEPT !.op = "GetUserAttributes", !.u = u, !.arg = u,
                                   !.pc = "done", !.err = ErrInvalidHexID,
                                   !.leases = DeferredClose(1)])
    /\ UNCHANGED <<customers, addresses, cards, nextId, removed, traceContext>>

\* Lines 346-379: query the addresses, replace u.Addresses, decode the card
\* references.
AttributesAddresses(p) ==
  LET r == proc[p]
      ids == RefIds(r.u.Addresses)
  IN /\ r.op = "GetUserAttributes" /\ r.pc = "ga_addr"
     /\ \E ok \in BOOLEAN :
          LET l == Logged(r, Call("findAll", "addresses", ids, ok))
          IN Set(p, IF ~ok
                    THEN [l EXCEPT !.err = StoreErr("addresses"), !.pc = "done",
                                   !.leases = DeferredClose(@)]
                    ELSE LET n == [l EXCEPT !.u.Addresses = Hydrate(addresses, ids)]
                         IN IF RefsWellFormed(n.u.Cards)
                            THEN [n EXCEPT !.pc = "ga_card"]
                            ELSE [n EXCEPT !.err = ErrInvalidHexID, !.pc = "done",
                                           !.leases = DeferredClose(@)])
     /\ UNCHANGED <<customers, addresses, cards, nextId, removed, traceContext>>

\* Lines 380-399: query the cards, replace u.Cards.
AttributesCards(p) ==
  LET r == proc[p]
      ids == RefIds(r.u.Cards)
  IN /\ r.op = "GetUserAttributes" /\ r.pc = "ga_card"
     /\ \E ok \in BOOLEAN :
          LET l == Logged(r, Call("findAll", "cards", ids, ok))
          IN Set(p, IF ~ok
                    THEN [l EXCEPT !.err = StoreErr("cards"), !.pc = "done",
                                   !.leases = DeferredClose(@)]
                    ELSE [l EXCEPT !.u.Cards = Hydrate(cards, ids), !.err = Nil,
                                   !.pc = "done", !.leases = DeferredClose(@)])
     /\ UNCHANGED <<customers, addresses, cards, nextId, removed, traceContext>>

(* ---------------------- CreateCard / CreateAddress --------------------- *)
\* The reference field and collection a standalone create works on.
AttrOf(op) == IF op = "CreateCard" THEN "cards" ELSE "addresses"

\* Lines 479-489 / 587-597: reject a malformed user id, else copy the
\* session and generate the entity's id.
StartCreateAttr(p) ==
  \E op \in {"CreateCard", "CreateAddress"}, d \in Data, userid \in {<<>>} \cup InputIds :
    /\ proc[p].op = "endpoint"
    /\ IF userid /= <<>> /\ ~IsObjectIdHex(userid)
       THEN /\ Set(p, [Entered EXCEPT !.op = op, !.userid = userid,
                                   !.item = [ID |-> <<>>, data |-> d],
                                   !.pc = "done", !.err = ErrInvalidHexID])
            /\ nextId' = nextId
       ELSE /\ CanAllocate(1)
            /\ Set(p, [Entered EXCEPT !.op = op, !.userid = userid,
                                   !.item = [ID |-> <<>>, data |-> d],
                                   !.mu = [New EXCEPT !.ID = NewObjectId(nextId)],
                                   !.pc = "ca_upsert", !.leases = 1])
            /\ nextId' = nextId + 1
    /\ UNCHANGED <<customers, addresses, cards, removed, traceContext>>

\* Mutant: the link is attempted whatever the user id.
LinkAlways(userid) == TRUE

\* Lines 498 / 606: the entity is linked only when a user id was given.
LinkWanted(userid) == userid /= <<>>

\* Lines 490-497 / 598-605: UpsertId of the entity.
CreateAttrUpsert(p) ==
  LET r == proc[p]
      id == r.mu.ID
      attr == AttrOf(r.op)
  IN /\ r.op \in {"CreateCard", "CreateAddress"} /\ r.pc = "ca_upsert"
     /\ \E ok \in BOOLEAN :
          LET l == Logged(r, Call("upsert", attr, {id}, ok))
          IN /\ cards' = IF ok /\ attr = "cards"
                         THEN MapPut(cards, id, r.item.data) ELSE cards
             /\ addresses' = IF ok /\ attr = "addresses"
                             THEN MapPut(addresses, id, r.item.data) ELSE addresses
             /\ Set(p, IF ~ok
                       THEN [l EXCEPT !.err = StoreErr(attr), !.pc = "done",
                                      !.leases = DeferredClose(@)]
                       ELSE IF LinkWanted(r.userid)
                            THEN [l EXCEPT !.pc = "ca_link", !.leases = 2]
                            ELSE [l EXCEPT !.item.ID = Hex(id), !.err = Nil,
                                           !.pc = "done", !.leases = DeferredClose(@)])
     /\ UNCHANGED <<customers, nextId, removed, traceContext>>

\* Mutant: the id is appended whether or not the list has it.
AddToSetAppend(s, id) == Append(s, id)

\* $addToSet: the list with id in it once, its other members as they were.
AddToSet(s, id) == IF id \in Range(s) THEN s ELSE Append(s, id)

\* Mutant: the update inserts the user document when there is none.
AppendAttributeIdUpsert(attr, id, userid, ok) ==
  LET uid == ObjectIdHex(userid)
  IN IF ~ok THEN [customers |-> customers, err |-> StoreErr("customers")]
     ELSE IF uid \notin DOMAIN customers
          THEN [customers |->
                  MapPut(customers, uid,
                         [username |-> "",
                          addresses |-> IF attr = "cards" THEN <<>> ELSE <<id>>,
                          cards |-> IF attr = "cards" THEN <<id>> ELSE <<>>]),
                err |-> Nil]
          ELSE [customers |->
                  [customers EXCEPT ![uid] =
                     IF attr = "cards"
                     THEN [@ EXCEPT !.cards = AddToSet(@, id)]
                     ELSE [@ EXCEPT !.addresses = AddToSet(@, id)]],
                err |-> Nil]

\* Mutant: the update is applied to every user document.
AppendAttributeIdAll(attr, id, userid, ok) ==
  LET uid == ObjectIdHex(userid)
  IN IF ~ok THEN [customers |-> customers, err |-> StoreErr("customers")]
     ELSE IF uid \notin DOMAIN customers
          THEN [customers |-> customers, err |-> ErrNotFound]
          ELSE [customers |->
                  [x \in DOMAIN customers |->
                     IF attr = "cards"
                     THEN [customers[x] EXCEPT !.cards = AddToSet(@, id)]
                     ELSE [customers[x] EXCEPT !.addresses = AddToSet(@, id)]],
                err |-> Nil]

\* appendAttributeId: Update of the one user document with $addToSet.
AppendAttributeId(attr, id, userid, ok) ==
  LET uid == ObjectIdHex(userid)
  IN IF ~ok THEN [customers |-> customers, err |-> StoreErr("customers")]
     ELSE IF uid \notin DOMAIN customers
          THEN [customers |-> customers, err |-> ErrNotFound]
          ELSE [customers |->
                  [customers EXCEPT ![uid] =
                     IF attr = "cards"
                     THEN [@ EXCEPT !.cards = AddToSet(@, id)]
                     ELSE [@ EXCEPT !.addresses = AddToSet(@, id)]],
                err |-> Nil]

\* Lines 497-507 / 605-615: link the entity to the user.
CreateAttrLink(p) ==
  LET r == proc[p]
      attr == AttrOf(r.op)
  IN /\ r.op \in {"CreateCard", "CreateAddress"} /\ r.pc = "ca_link"
     /\ \E ok \in BOOLEAN :
          LET a == AppendAttributeId(attr, r.mu.ID, r.userid, ok)
              l == Logged(r, Answered(Call("update", "customers",
                                           {ObjectIdHex(r.userid)}, a.err = Nil),
                                      ok))
          IN /\ customers' = a.customers
             /\ Set(p, IF a.err /= Nil
                       THEN [l EXCEPT !.err = a.err, !.pc = "done", !.leases = DeferredClose(@)]
                       ELSE [l EXCEPT !.item.ID = Hex(r.mu.ID), !.err = Nil,
                                      !.pc = "done", !.leases = DeferredClose(@)])
     /\ UNCHANGED <<addresses, cards, nextId, removed, traceContext>>

(* -------------------------------- Delete ------------------------------- *)
Entities == {"customers", "addresses", "cards"}

\* The ids in a user document's reference field.
Refs(doc, attr) == Range(IF attr = "cards" THEN doc.cards ELSE doc.addresses)

Collection(entity) ==
  CASE entity = "customers" -> customers
    [] entity = "addresses" -> addresses
    [] entity = "cards" -> cards

Snapshot(entity, id) ==
  IF entity = "customers"
  THEN IF id \in DOMAIN customers
       THEN [exists |-> TRUE, owners |-> {},
             addresses |-> Refs(customers[id], "addresses"),
             cards |-> Refs(customers[id], "cards")]
       ELSE NoSnap
  ELSE [NoSnap EXCEPT !.exists = id \in DOMAIN Collection(entity),
                      !.owners = {x \in DOMAIN customers :
                                    id \in Refs(customers[x], entity)}]

\* Mutant: a failed bulk removal ends the delete with its error.
BulkRemoveErrorReturned(r, err) ==
  IF err = Nil THEN r ELSE [r EXCEPT !.err = err, !.pc = "done", !.leases = DeferredClose(@)]

\* Lines 655-658: the results of the two RemoveAll calls are dropped.
BulkRemoveError(r, err) == r

\* Mutant: a failed pull is tried again.
PullErrorRetry(r, err) == IF err = Nil THEN r ELSE [r EXCEPT !.pc = "del_pull"]

\* Lines 660-662: the result of UpdateAll is dropped.
PullError(r, err) == r

\* Lines 631-640: a malformed id returns before the session is copied.
\* Mutant: the id is validated on the root path only.
DeleteEntryRootOnly(entity, id) ==
  IF entity = "customers" /\ ~IsObjectIdHex(id)
  THEN [Entered EXCEPT !.op = "Delete", !.entity = entity, !.id = id,
                    !.pc = "done", !.err = ErrInvalidHexID]
  ELSE [Entered EXCEPT !.op = "Delete", !.entity = entity, !.id = id,
                    !.leases = 1,
                    !.pc = IF entity = "customers" THEN "del_getuser"
                                                   ELSE "del_pull"]

\* Mutant: the delete of an address or card goes straight to the removal.
DeleteEntrySkipPull(entity, id) ==
  IF ~IsObjectIdHex(id)
  THEN [Entered EXCEPT !.op = "Delete", !.entity = entity, !.id = id,
                    !.pc = "done", !.err = ErrInvalidHexID]
  ELSE [Entered EXCEPT !.op = "Delete", !.entity = entity, !.id = id,
                    !.leases = 1,
                    !.snap = Snapshot(entity, ObjectIdHex(id)),
                    !.pc = IF entity = "customers" THEN "del_getuser"
                                                   ELSE "del_remove"]

\* Lines 631-640: what Delete holds once the id has been looked at.
DeleteEntry(entity, id) ==
  IF ~IsObjectIdHex(id)
  THEN [Entered EXCEPT !.op = "Delete", !.entity = entity, !.id = id,
                    !.pc = "done", !.err = ErrInvalidHexID]
  ELSE [Entered EXCEPT !.op = "Delete", !.entity = entity, !.id = id,
                    !.leases = 1,
                    !.snap = Snapshot(entity, ObjectIdHex(id)),
                    !.pc = IF entity = "customers" THEN "del_getuser"
                                                   ELSE "del_pull"]

StartDelete(p) ==
  \E entity \in Entities, id \in InputIds :
    /\ proc[p].op = "endpoint"
    /\ Set(p, DeleteEntry(entity, id))
    /\ UNCHANGED <<customers, addresses, cards, nextId, removed, traceContext>>

\* Lines 641-654: load the user; its error ends the delete.
DeleteGetUser(p) ==
  LET r == proc[p]
      id == ObjectIdHex(r.id)
  IN /\ r.op = "Delete" /\ r.pc = "del_getuser"
     /\ \E ok \in BOOLEAN :
          LET f == FindUser(id, ok)
              l == Logged(r, Call("find", "customers", {id}, ok))
          IN Set(p, IF f.err /= Nil
                    THEN [l EXCEPT !.err = f.err, !.pc = "done", !.leases = DeferredClose(@)]
                    ELSE [l EXCEPT !.u = f.u, !.pc = "del_rm_addr"])
     /\ UNCHANGED <<customers, addresses, cards, nextId, removed, traceContext>>

\* Line 656: RemoveAll of the referenced addresses, its result dropped.
DeleteAddresses(p) ==
  LET r == proc[p]
      aids == RefIds(r.u.Addresses)
  IN /\ r.op = "Delete" /\ r.pc = "del_rm_addr"
     /\ \E ok \in BOOLEAN :
          /\ addresses' = IF ok THEN RemoveAll(addresses, aids) ELSE addresses
          /\ Set(p, BulkRemoveError(
                      [Logged(r, Call("removeAll", "addresses", aids, ok))
                         EXCEPT !.pc = "del_rm_card"],
                      IF ok THEN Nil ELSE StoreErr("addresses")))
     /\ UNCHANGED <<customers, cards, nextId, removed, traceContext>>

\* Line 658: RemoveAll of the referenced cards, its result dropped.
DeleteCards(p) ==
  LET r == proc[p]
      cids == RefIds(r.u.Cards)
  IN /\ r.op = "Delete" /\ r.pc = "del_rm_card"
     /\ \E ok \in BOOLEAN :
          /\ cards' = IF ok THEN RemoveAll(cards, cids) ELSE cards
          /\ Set(p, BulkRemoveError(
                      [Logged(r, Call("removeAll", "cards", cids, ok))
                         EXCEPT !.pc = "del_remove"],
                      IF ok THEN Nil ELSE StoreErr("cards")))
     /\ UNCHANGED <<customers, addresses, nextId, removed, traceContext>>

\* Mutant: the pull changes no user document.
PullAllNothing(entity, id) == customers

\* Mutant: the pull always works on the addresses field.
PullAllAddressesField(entity, id) ==
  [x \in DOMAIN customers |->
     [customers[x] EXCEPT !.addresses = SeqWithout(@, id)]]

\* $pull of id from the reference field named entity, in every user document.
PullAll(entity, id) ==
  [x \in DOMAIN customers |->
     IF entity = "cards"
     THEN [customers[x] EXCEPT !.cards = SeqWithout(@, id)]
     ELSE [customers[x] EXCEPT !.addresses = SeqWithout(@, id)]]

\* Lines 660-662: UpdateAll over the customers, its result dropped.
DeletePull(p) ==
  LET r == proc[p]
      id == ObjectIdHex(r.id)
  IN /\ r.op = "Delete" /\ r.pc = "del_pull"
     /\ \E ok \in BOOLEAN :
          /\ customers' = IF ok THEN PullAll(r.entity, id) ELSE customers
          /\ Set(p, PullError(
                      [Logged(r, Call("updateAll", "customers", {id}, ok))
                         EXCEPT !.pc = "del_remove"],
                      IF ok THEN Nil ELSE StoreErr("customers")))
     /\ UNCHANGED <<addresses, cards, nextId, removed, traceContext>>

\* Lines 664-669: Remove of the entity's own document; its error is Delete's.
DeleteRemove(p) ==
  LET r == proc[p]
      id == ObjectIdHex(r.id)
  IN /\ r.op = "Delete" /\ r.pc = "del_remove"
     /\ \E ok \in BOOLEAN :
          LET hit == ok /\ id \in DOMAIN Collection(r.entity)
              err == IF ~ok THEN StoreErr(r.entity)
                     ELSE IF hit THEN Nil ELSE ErrNotFound
          IN /\ customers' = IF hit /\ r.entity = "customers"
                             THEN MapDrop(customers, {id}) ELSE customers
             /\ addresses' = IF hit /\ r.entity = "addresses"
                             THEN MapDrop(addresses, {id}) ELSE addresses
             /\ cards' = IF hit /\ r.entity = "cards"
                         THEN MapDrop(cards, {id}) ELSE cards
             /\ Set(p, [Logged(r, Answered(Call("remove", r.entity, {id}, hit), ok))
                          EXCEPT !.err = err, !.pc = "done", !.leases = DeferredClose(@)])
             /\ removed' = IF err = Nil /\ \A i \in 1..Len(r.log) : r.log[i].ok
                           THEN removed \cup {[entity |-> r.entity, id |-> id,
                                               snap |-> r.snap]}
                           ELSE removed
     /\ UNCHANGED <<nextId, traceContext>>

(* ------------------------------- return -------------------------------- *)
\* The operation has returned; the request is over.
Return(p) ==
  /\ proc[p].pc = "done"
  /\ Set(p, Idle)
  /\ UNCHANGED <<customers, addresses, cards, nextId, removed, traceContext>>

Step(p) ==
  \/ CreateCardsStep(p)
  \/ CreateAddressesStep(p)
  \/ UpsertUser(p)
  \/ CleanAddresses(p)
  \/ CleanCards(p)
  \/ GetUserFind(p)
  \/ GetUserByNameFind(p)
  \/ AttributesAddresses(p)
  \/ AttributesCards(p)
  \/ CreateAttrUpsert(p)
  \/ CreateAttrLink(p)
  \/ DeleteGetUser(p)
  \/ DeleteAddresses(p)
  \/ DeleteCards(p)
  \/ DeletePull(p)
  \/ DeleteRemove(p)
  \/ Return(p)

\* The endpoint of request p is about to call its storage operation.
Called(p) == proc[p].op = "endpoint"

AllIdle == \A q \in Procs : proc[q].op = "idle"

\* Requests served one at a time.
Next ==
  \E p \in SeqProcs :
    \/ AllIdle /\ SetTraceContext(p)
    \/ Called(p) /\ StartCreateUser(p)
    \/ Called(p) /\ StartCreateAttr(p)
    \/ Called(p) /\ StartGetUser(p)
    \/ Called(p) /\ StartGetUserByName(p)
    \/ Called(p) /\ StartGetUserAttributes(p)
    \/ Called(p) /\ StartDelete(p)
    \/ Step(p)

Spec == Init /\ [][Next]_vars

(* ------------------- appendAttributeId, called again ------------------- *)
\* How often one link is asked for.
MaxCalls == 3

\* The reference lists the storage layer writes: no id twice.
RefLists(ids) ==
  {s \in UNION {[1..n -> ids] : n \in 0..MaxNested} :
     \A i, j \in 1..Len(s) : i /= j => s[i] /= s[j]}

\* One stored user whose references are to stored documents; every id has
\* been handed out.
InitLink ==
  /\ \E as \in RefLists(KnownIds \ {NewObjectId(1)}) :
       \E cs \in RefLists((KnownIds \ {NewObjectId(1)}) \ Range(as)) :
         /\ customers = MapPut(<<>>, NewObjectId(1),
                               [username |-> "alice", addresses |-> as, cards |-> cs])
         /\ addresses = [x \in Range(as) |-> "X"]
         /\ cards = [x \in Range(cs) |-> "X"]
  /\ nextId = MaxIds + 1
  /\ proc = [p \in Procs |-> Idle]
  /\ removed = {}
  /\ traceContext = Background

\* The user document as it is before the first call, for the record.
Stored(uid) ==
  IF uid \in DOMAIN customers
  THEN [ID |-> uid, AddressIDs |-> customers[uid].addresses,
        CardIDs |-> customers[uid].cards]
  ELSE New

\* appendAttributeId(attr, id, userid), lines 211-217, called once.
AppendAttributeIdFirst(p) ==
  \E attr \in {"addresses", "cards"}, id \in KnownIds \ {NewObjectId(1)},
     userid \in {Hex(x) : x \in KnownIds}, ok \in BOOLEAN :
    LET a == AppendAttributeId(attr, id, userid, ok)
    IN /\ proc[p].op = "idle"
       /\ customers' = a.customers
       /\ Set(p, [Idle EXCEPT !.op = "appendAttributeId", !.entity = attr,
                              !.id = Hex(id), !.userid = userid,
                              !.mu = Stored(ObjectIdHex(userid)),
                              !.err = a.err, !.pc = "done",
                              !.log = <<Answered(Call("update", "customers",
                                                      {ObjectIdHex(userid)},
                                                      a.err = Nil), ok)>>])
       /\ UNCHANGED <<addresses, cards, nextId, removed, traceContext>>

\* The same call once more.
AppendAttributeIdAgain(p) ==
  LET r == proc[p]
  IN /\ r.op = "appendAttributeId"
     /\ Len(r.log) < MaxCalls
     /\ \E ok \in BOOLEAN :
          LET a == AppendAttributeId(r.entity, ObjectIdHex(r.id), r.userid, ok)
          IN /\ customers' = a.customers
             /\ Set(p, [Logged(r, Answered(Call("update", "customers",
                                                {ObjectIdHex(r.userid)},
                                                a.err = Nil), ok))
                          EXCEPT !.err = a.err])
     /\ UNCHANGED <<addresses, cards, nextId, removed, traceContext>>

NextLink ==
  \E p \in SeqProcs :
    \/ AppendAttributeIdFirst(p)
    \/ AppendAttributeIdAgain(p)

SpecLink == InitLink /\ [][NextLink]_vars

(* ------------------------- concurrent requests ------------------------- *)
\* The store did not fail any call of request p.
NoFault(p) == \A i \in 1..Len(proc[p].log) : ~proc[p].log[i].fault

\* One user has been created, with no card and with one address or none.
InitConc ==
  /\ \E as \in {<<>>, <<NewObjectId(2)>>} :
       /\ customers = MapPut(<<>>, NewObjectId(1),
                             [username |-> "alice", addresses |-> as, cards |-> <<>>])
       /\ addresses = [x \in Range(as) |-> "X"]
       /\ nextId = 2 + Len(as)
  /\ cards = <<>>
  /\ proc = [p \in Procs |-> Idle]
  /\ removed = {}
  /\ traceContext = Background

\* Two requests served at the same time by the endpoints that create a user,
\* a card or an address and that delete, each storage operation a sequence
\* of store calls that the other request's calls interleave with; the store
\* fails no call.
NextConc ==
  \E p \in Procs :
    \/ SetTraceContext(p)
    \/ Called(p) /\ StartCreateUser(p)
    \/ Called(p) /\ StartCreateAttr(p)
    \/ Called(p) /\ StartDelete(p)
    \/ CreateCardsStep(p) /\ NoFault(p)'
    \/ CreateAddressesStep(p) /\ NoFault(p)'
    \/ UpsertUser(p) /\ NoFault(p)'
    \/ CleanAddresses(p) /\ NoFault(p)'
    \/ CleanCards(p) /\ NoFault(p)'
    \/ CreateAttrUpsert(p) /\ NoFault(p)'
    \/ CreateAttrLink(p) /\ NoFault(p)'
    \/ DeleteGetUser(p) /\ NoFault(p)'
    \/ DeleteAddresses(p) /\ NoFault(p)'
    \/ DeleteCards(p) /\ NoFault(p)'
    \/ DeletePull(p) /\ NoFault(p)'
    \/ DeleteRemove(p) /\ NoFault(p)'

SpecConc == InitConc /\ [][NextConc]_vars

\* The same two requests with a store that may fail any call.
NextRace ==
  \E p \in Procs :
    \/ SetTraceContext(p)
    \/ Called(p) /\ StartCreateUser(p)
    \/ Called(p) /\ StartCreateAttr(p)
    \/ Called(p) /\ StartDelete(p)
    \/ CreateCardsStep(p)
    \/ CreateAddressesStep(p)
    \/ UpsertUser(p)
    \/ CleanAddresses(p)
    \/ CleanCards(p)
    \/ CreateAttrUpsert(p)
    \/ CreateAttrLink(p)
    \/ DeleteGetUser(p)
    \/ DeleteAddresses(p)
    \/ DeleteCards(p)
    \/ DeletePull(p)
    \/ DeleteRemove(p)

SpecRace == InitConc /\ [][NextRace]_vars

(* ------------------ one request at a time, no failure ------------------ *)
\* Requests to the creating and deleting endpoints, served one at a time
\* by a store that fails no call.
NextClean ==
  \E p \in SeqProcs :
    \/ AllIdle /\ SetTraceContext(p)
    \/ Called(p) /\ StartCreateUser(p)
    \/ Called(p) /\ StartCreateAttr(p)
    \/ Called(p) /\ StartDelete(p)
    \/ CreateCardsStep(p) /\ NoFault(p)'
    \/ CreateAddressesStep(p) /\ NoFault(p)'
    \/ UpsertUser(p) /\ NoFault(p)'
    \/ CleanAddresses(p) /\ NoFault(p)'
    \/ CleanCards(p) /\ NoFault(p)'
    \/ CreateAttrUpsert(p) /\ NoFault(p)'
    \/ CreateAttrLink(p) /\ NoFault(p)'
    \/ DeleteGetUser(p) /\ NoFault(p)'
    \/ DeleteAddresses(p) /\ NoFault(p)'
    \/ DeleteCards(p) /\ NoFault(p)'
    \/ DeletePull(p) /\ NoFault(p)'
    \/ DeleteRemove(p) /\ NoFault(p)'
    \/ Return(p)

SpecClean == Init /\ [][NextClean]_vars

(* ------------------------------ properties ----------------------------- *)
Done(p, op) == proc[p].op = op /\ proc[p].pc = "done"

\* No store call of the operation failed.
AllOk(log) == \A i \in 1..Len(log) : log[i].ok

Calls(log, name, coll) ==
  {i \in 1..Len(log) : log[i].call = name /\ log[i].coll = coll}

Failed(log, name, coll) == \E i \in Calls(log, name, coll) : ~log[i].ok

\* The ids of the documents the operation wrote into coll.
Created(log, coll) ==
  UNION {log[i].ids : i \in {j \in Calls(log, "upsert", coll) : log[j].ok}}

ItemIds(items) == {items[i].ID : i \in 1..Len(items)}

\* C1: with no store call failing, CreateUser with N addresses and M cards
\* returns nil and leaves a user document with exactly N address ids and M
\* card ids, pairwise distinct, each the id of a stored document.
C1_AggregateCreate ==
  \A p \in Procs :
    LET r == proc[p]
        id == r.mu.ID
    IN Done(p, "CreateUser") /\ AllOk(r.log) =>
         /\ r.err = Nil
         /\ id \in DOMAIN customers
         /\ Len(customers[id].addresses) = Len(r.u.Addresses)
         /\ Len(customers[id].cards) = Len(r.u.Cards)
         /\ Cardinality(Refs(customers[id], "addresses")
                        \cup Refs(customers[id], "cards"))
              = Len(r.u.Addresses) + Len(r.u.Cards)
         /\ Refs(customers[id], "addresses") \subseteq DOMAIN addresses
         /\ Refs(customers[id], "cards") \subseteq DOMAIN cards

C1_Witness ==
  \E p \in Procs :
    /\ Done(p, "CreateUser") /\ AllOk(proc[p].log)
    /\ Len(proc[p].u.Addresses) >= 1
    /\ Len(proc[p].u.Cards) >= 1

\* C2: when the user upsert fails and both cleanup removals succeed, no
\* user document of this attempt exists and no address or card document
\* created by this attempt remains.
C2_CompensationCleans ==
  \A p \in Procs :
    LET r == proc[p]
    IN /\ Done(p, "CreateUser")
       /\ Failed(r.log, "upsert", "customers")
       /\ ~Failed(r.log, "removeAll", "addresses")
       /\ ~Failed(r.log, "removeAll", "cards")
       => /\ r.mu.ID \notin DOMAIN customers
          /\ Created(r.log, "addresses") \cap DOMAIN addresses = {}
          /\ Created(r.log, "cards") \cap DOMAIN cards = {}

C2_Witness ==
  \E p \in Procs :
    LET r == proc[p]
    IN /\ Done(p, "CreateUser")
       /\ Failed(r.log, "upsert", "customers")
       /\ ~Failed(r.log, "removeAll", "addresses")
       /\ ~Failed(r.log, "removeAll", "cards")
       /\ Created(r.log, "addresses") /= {}
       /\ Created(r.log, "cards") /= {}

\* C3: when the user upsert fails CreateUser returns the upsert's error,
\* never a cleanup error, and the documents a failed cleanup removal was to
\* remove stay stored.
C3_UpsertErrorWins ==
  \A p \in Procs :
    LET r == proc[p]
    IN Done(p, "CreateUser") /\ Failed(r.log, "upsert", "customers") =>
         /\ r.err \in {StoreErr("customers"), ErrDuplicateKey}
         /\ Failed(r.log, "removeAll", "addresses")
              => Created(r.log, "addresses") \subseteq DOMAIN addresses
         /\ Failed(r.log, "removeAll", "cards")
              => Created(r.log, "cards") \subseteq DOMAIN cards

C3_Witness ==
  \E p \in Procs :
    LET r == proc[p]
    IN /\ Done(p, "CreateUser") /\ Failed(r.log, "upsert", "customers")
       /\ Failed(r.log, "removeAll", "cards")
       /\ Created(r.log, "cards") /= {}
       /\ Created(r.log, "cards") \subseteq DOMAIN cards

\* C4: when the user upsert succeeds and a nested creation failed,
\* CreateUser returns the error made of the card error and the address
\* error, removes nothing, and the user document holds exactly the ids of
\* the nested documents that were created.
C4_PartialAggregateFailure ==
  \A p \in Procs :
    LET r == proc[p]
        id == r.mu.ID
        cardfail == Failed(r.log, "upsert", "cards")
        addrfail == Failed(r.log, "upsert", "addresses")
    IN /\ Done(p, "CreateUser")
       /\ ~Failed(r.log, "upsert", "customers")
       /\ cardfail \/ addrfail
       => /\ r.err = AttrErrorf(IF cardfail THEN StoreErr("cards") ELSE Nil,
                                IF addrfail THEN StoreErr("addresses") ELSE Nil)
          /\ r.err /= Nil
          /\ \A i \in 1..Len(r.log) : r.log[i].call = "upsert"
          /\ id \in DOMAIN customers
          /\ Refs(customers[id], "addresses") = Created(r.log, "addresses")
          /\ Refs(customers[id], "cards") = Created(r.log, "cards")
          /\ Created(r.log, "addresses") \subseteq DOMAIN addresses
          /\ Created(r.log, "cards") \subseteq DOMAIN cards

C4_Witness ==
  \E p \in Procs :
    LET r == proc[p]
    IN /\ Done(p, "CreateUser")
       /\ ~Failed(r.log, "upsert", "customers")
       /\ Failed(r.log, "upsert", "addresses")
       /\ Created(r.log, "cards") /= {}
       /\ r.mu.ID \in DOMAIN customers

\* C5: CreateUser attempts the write of every nested card and every nested
\* address of the payload, whatever the outcome of the other items.
C5_EveryItemAttempted ==
  \A p \in Procs :
    LET r == proc[p]
    IN Done(p, "CreateUser") =>
         /\ Cardinality(Calls(r.log, "upsert", "cards")) = Len(r.u.Cards)
         /\ Cardinality(Calls(r.log, "upsert", "addresses")) = Len(r.u.Addresses)

\* C6: with no store call failing, Delete("customers", id) of an existing
\* user removes the user document and every address and card document it
\* referenced when the delete started, and a later GetUser(id) fails with
\* not found.
C6_CascadeDelete ==
  \A p \in Procs :
    LET r == proc[p]
    IN /\ Done(p, "Delete") /\ r.entity = "customers"
            /\ AllOk(r.log) /\ r.snap.exists
          => /\ r.err = Nil
             /\ ObjectIdHex(r.id) \notin DOMAIN customers
             /\ r.snap.addresses \cap DOMAIN addresses = {}
             /\ r.snap.cards \cap DOMAIN cards = {}
       /\ Done(p, "GetUser") /\ AllOk(r.log) /\ IsObjectIdHex(r.id)
            /\ (\E d \in removed : d.entity = "customers" /\ d.id = ObjectIdHex(r.id))
          => r.err = ErrNotFound

C6_Witness ==
  \E p \in Procs :
    LET r == proc[p]
    IN /\ Done(p, "GetUser") /\ AllOk(r.log) /\ r.err = ErrNotFound
       /\ \E d \in removed :
            /\ d.entity = "customers" /\ Hex(d.id) = r.id
            /\ d.snap.addresses /= {} /\ d.snap.cards /= {}
            /\ d.snap.addresses \cap DOMAIN addresses = {}
            /\ d.snap.cards \cap DOMAIN cards = {}

\* C7: with no store call failing, Delete("addresses", id) or
\* Delete("cards", id) of an existing document leaves id in no user's
\* reference set and out of its collection, and a later GetUserAttributes on
\* a former owner returns nil and a result without id.
C7_NestedDeleteCleansReferences ==
  \A p \in Procs :
    LET r == proc[p]
    IN /\ Done(p, "Delete") /\ r.entity /= "customers"
            /\ AllOk(r.log) /\ r.snap.exists
          => /\ r.err = Nil
             /\ \A x \in DOMAIN customers :
                  ObjectIdHex(r.id) \notin Refs(customers[x], r.entity)
             /\ ObjectIdHex(r.id) \notin DOMAIN Collection(r.entity)
       /\ Done(p, "GetUserAttributes") /\ AllOk(r.log) /\ IsObjectIdHex(r.u.UserID)
          => \A d \in removed :
               d.entity /= "customers" /\ ObjectIdHex(r.u.UserID) \in d.snap.owners
               => /\ r.err = Nil
                  /\ Hex(d.id) \notin ItemIds(IF d.entity = "cards" THEN r.u.Cards
                                                                    ELSE r.u.Addresses)

C7_Witness ==
  \E p \in Procs :
    LET r == proc[p]
    IN /\ Done(p, "GetUserAttributes") /\ AllOk(r.log) /\ IsObjectIdHex(r.u.UserID)
       /\ r.err = Nil
       /\ \E d \in removed :
            /\ d.entity = "addresses"
            /\ ObjectIdHex(r.u.UserID) \in d.snap.owners
            /\ d.id \notin DOMAIN addresses

\* A store call that writes.
IsWrite(c) == c.call \in {"upsert", "update", "updateAll", "remove", "removeAll"}

\* C8: CreateUser, CreateCard, CreateAddress and Delete of an address or a
\* card return nil only if every store write they issued succeeded.
C8_NoHiddenWriteFailure ==
  \A p \in Procs :
    LET r == proc[p]
    IN /\ r.pc = "done" /\ r.err = Nil
       /\ \/ r.op \in {"CreateUser", "CreateCard", "CreateAddress"}
          \/ r.op = "Delete" /\ r.entity /= "customers"
       => \A i \in 1..Len(r.log) : IsWrite(r.log[i]) => r.log[i].ok

\* C9: Delete with a malformed id fails with the invalid-id error without
\* issuing a store call, on the root path and on the nested path, and the
\* three collections are as they were.
C9_MalformedIdRejected ==
  /\ [](\A p \in Procs :
          proc[p].op = "Delete" /\ ~IsObjectIdHex(proc[p].id)
          => /\ proc[p].pc = "done"
             /\ proc[p].err = ErrInvalidHexID
             /\ proc[p].log = <<>>)
  /\ [][\A p \in Procs :
          proc'[p].op = "Delete" /\ ~IsObjectIdHex(proc'[p].id)
          => UNCHANGED <<customers, addresses, cards>>]_vars

C9_Witness ==
  \E p \in Procs :
    /\ Done(p, "Delete") /\ proc[p].id \in Malformed
    /\ proc[p].entity = "addresses"
    /\ customers /= <<>> /\ addresses /= <<>>

\* C10: in Delete("customers", id), once the user is loaded, both bulk
\* removals and the removal of the user document are issued whatever the
\* bulk removals return, and Delete returns the result of removing the user
\* document; if the user cannot be loaded Delete returns that error.
C10_BulkRemoveErrorsDropped ==
  \A p \in Procs :
    LET r == proc[p]
    IN Done(p, "Delete") /\ r.entity = "customers" /\ IsObjectIdHex(r.id) =>
         IF r.log[1].ok /\ r.snap.exists
         THEN /\ Len(r.log) = 4
              /\ r.log[2].call = "removeAll" /\ r.log[2].coll = "addresses"
              /\ r.log[3].call = "removeAll" /\ r.log[3].coll = "cards"
              /\ r.log[4].call = "remove" /\ r.log[4].coll = "customers"
              /\ (r.err = Nil) = r.log[4].ok
              /\ r.log[4].ok => ObjectIdHex(r.id) \notin DOMAIN customers
         ELSE /\ Len(r.log) = 1
              /\ r.err = IF r.log[1].ok THEN ErrNotFound ELSE StoreErr("customers")

C10_Witness ==
  \E p \in Procs :
    LET r == proc[p]
    IN /\ Done(p, "Delete") /\ r.entity = "customers" /\ r.err = Nil
       /\ Failed(r.log, "removeAll", "addresses")
       /\ ObjectIdHex(r.id) \notin DOMAIN customers
       /\ r.snap.addresses \cap DOMAIN addresses /= {}

Occurrences(s, x) == Cardinality({i \in 1..Len(s) : s[i] = x})

\* C11: once appendAttributeId has succeeded for an attribute, an id and an
\* existing user, however often it is called with them, the user's reference
\* list of that attribute holds the id exactly once, its other members are
\* what they were, in their order, and the other list is as it was.
C11_AddToSetIdempotent ==
  \A p \in Procs :
    LET r == proc[p]
        uid == ObjectIdHex(r.userid)
        id == ObjectIdHex(r.id)
    IN r.op = "appendAttributeId" /\ (\E i \in 1..Len(r.log) : r.log[i].ok) =>
         /\ uid \in DOMAIN customers
         /\ LET now == customers[uid]
                linked == IF r.entity = "cards" THEN now.cards ELSE now.addresses
                before == IF r.entity = "cards" THEN r.mu.CardIDs ELSE r.mu.AddressIDs
                other == IF r.entity = "cards" THEN now.addresses ELSE now.cards
                otherBefore == IF r.entity = "cards" THEN r.mu.AddressIDs
                                                      ELSE r.mu.CardIDs
            IN /\ Occurrences(linked, id) = 1
               /\ SeqWithout(linked, id) = SeqWithout(before, id)
               /\ other = otherBefore

\* The link has succeeded twice on a list that had other members.
C11_Witness ==
  \E p \in Procs :
    LET r == proc[p]
    IN /\ r.op = "appendAttributeId" /\ r.entity = "addresses"
       /\ Cardinality({i \in 1..Len(r.log) : r.log[i].ok}) >= 2
       /\ r.mu.AddressIDs /= <<>>
       /\ ObjectIdHex(r.id) \notin Range(r.mu.AddressIDs)

CreateOps == {"CreateCard", "CreateAddress"}

\* C12: CreateCard and CreateAddress insert the entity first and link it only
\* when the user id is not empty. With an empty user id no user document is
\* modified and no link is asked for; with a user id whose link fails the
\* operation returns the link's error, and the entity stays persisted and
\* referenced by no user.
C12_InsertThenLink ==
  /\ [](\A p \in Procs :
          LET r == proc[p]
              id == r.mu.ID
              attr == AttrOf(r.op)
              links == Calls(r.log, "update", "customers")
          IN r.op \in CreateOps /\ r.pc = "done" =>
               /\ links /= {} => /\ r.userid /= <<>>
                                 /\ links = {2}
                                 /\ r.log[1].call = "upsert" /\ r.log[1].ok
               /\ r.userid = <<>> => links = {}
               /\ (\E i \in links : ~r.log[i].ok) =>
                    /\ r.err = IF r.log[2].fault THEN StoreErr("customers")
                                                 ELSE ErrNotFound
                    /\ ~r.log[2].fault => ObjectIdHex(r.userid) \notin DOMAIN customers
                    /\ id \in DOMAIN Collection(attr)
                    /\ \A x \in DOMAIN customers :
                         id \notin Refs(customers[x], "addresses")
                                     \cup Refs(customers[x], "cards"))
  /\ [][\A p \in Procs :
          proc'[p].op \in CreateOps /\ proc'[p].userid = <<>>
          => customers' = customers]_vars

\* CreateAddress for a user that does not exist has returned: the address is
\* stored while other users are.
C12_Witness ==
  \E p \in Procs :
    LET r == proc[p]
    IN /\ Done(p, "CreateAddress") /\ IsObjectIdHex(r.userid)
       /\ r.err = ErrNotFound
       /\ r.mu.ID \in DOMAIN addresses
       /\ customers /= <<>>

\* C13: no two user documents have the same username. A CreateUser whose
\* username a stored user already has fails: with the duplicate-key error
\* unless the store itself failed the upsert; no document with the new id is
\* stored, the user that had the name keeps its references, and
\* GetUserByName with that name returns that user.
C13_UniqueUsername ==
  /\ \A x, y \in DOMAIN customers :
       customers[x].username = customers[y].username => x = y
  /\ \A p \in Procs :
       LET r == proc[p]
           ups == Calls(r.log, "upsert", "customers")
       IN Done(p, "CreateUser") /\ r.snap.exists =>
            /\ r.err /= Nil
            /\ \A i \in ups : ~r.log[i].fault => r.err = ErrDuplicateKey
            /\ r.mu.ID \notin DOMAIN customers
            /\ \E x \in r.snap.owners :
                 /\ r.snap.owners = {x}
                 /\ x \in DOMAIN customers
                 /\ customers[x].username = r.arg.Username
                 /\ Refs(customers[x], "addresses") = r.snap.addresses
                 /\ Refs(customers[x], "cards") = r.snap.cards
                 /\ FindUserByName(r.arg.Username, TRUE) =
                      [u |-> AddUserIDs(x, customers[x]), err |-> Nil]
  /\ \A p \in Procs :
       LET r == proc[p]
       IN Done(p, "GetUserByName") /\ AllOk(r.log) =>
            IF \E x \in DOMAIN customers : customers[x].username = r.name
            THEN /\ r.err = Nil
                 /\ r.u.Username = r.name
                 /\ IsObjectIdHex(r.u.UserID)
                 /\ ObjectIdHex(r.u.UserID) \in DOMAIN customers
                 /\ r.u = AddUserIDs(ObjectIdHex(r.u.UserID),
                                     customers[ObjectIdHex(r.u.UserID)])
            ELSE r.err = ErrNotFound

\* CreateUser was refused for a name that a user with a reference has.
C13_Witness ==
  \E p \in Procs :
    LET r == proc[p]
    IN /\ Done(p, "CreateUser") /\ r.snap.exists
       /\ r.err = ErrDuplicateKey
       /\ r.snap.addresses /= {}

\* The items are exactly the documents coll has for the ids asked for.
Hydrated(items, coll, ids) ==
  /\ \A i \in 1..Len(items) :
       /\ IsObjectIdHex(items[i].ID)
       /\ ObjectIdHex(items[i].ID) \in ids \cap DOMAIN coll
       /\ items[i].data = coll[ObjectIdHex(items[i].ID)]
       /\ \A j \in 1..Len(items) : items[j].ID = items[i].ID => j = i
  /\ \A x \in ids \cap DOMAIN coll : \E i \in 1..Len(items) : items[i].ID = Hex(x)

\* C14: GetUserAttributes on a user value whose reference ids are all well
\* formed, with no store call failing, returns nil and leaves in u.Addresses
\* and u.Cards exactly the documents stored under those ids; a reference with
\* no document is left out.
C14_HydrateExisting ==
  \A p \in Procs :
    LET r == proc[p]
    IN /\ Done(p, "GetUserAttributes") /\ AllOk(r.log)
       /\ RefsWellFormed(r.arg.Addresses) /\ RefsWellFormed(r.arg.Cards)
       => /\ r.err = Nil
          /\ Hydrated(r.u.Addresses, addresses, RefIds(r.arg.Addresses))
          /\ Hydrated(r.u.Cards, cards, RefIds(r.arg.Cards))
          /\ r.u.UserID = r.arg.UserID /\ r.u.Username = r.arg.Username

\* A user with one address stored and one address gone has been hydrated.
C14_Witness ==
  \E p \in Procs :
    LET r == proc[p]
    IN /\ Done(p, "GetUserAttributes") /\ AllOk(r.log) /\ r.err = Nil
       /\ RefsWellFormed(r.arg.Addresses) /\ RefsWellFormed(r.arg.Cards)
       /\ RefIds(r.arg.Addresses) \ DOMAIN addresses /= {}
       /\ RefIds(r.arg.Addresses) \cap DOMAIN addresses /= {}

\* The items name the ids, one for one, in external string form.
Translated(items, ids) ==
  /\ Len(items) = Len(ids)
  /\ \A i \in 1..Len(items) :
       IsObjectIdHex(items[i].ID) /\ ObjectIdHex(items[i].ID) = ids[i]

\* C15: GetUser(id) with a malformed id returns the invalid-id error without
\* asking the store; with a well-formed id no user has, and the store
\* answering, it returns not-found; otherwise it returns the user whose
\* external id is id, every reference id in external string form.
C15_GetUser ==
  \A p \in Procs :
    LET r == proc[p]
    IN r.op = "GetUser" =>
         IF ~IsObjectIdHex(r.id)
         THEN /\ r.pc = "done"
              /\ r.err = ErrInvalidHexID
              /\ r.log = <<>>
              /\ r.u = NewUser
         ELSE r.pc = "done" /\ AllOk(r.log) =>
                LET id == ObjectIdHex(r.id)
                IN IF id \notin DOMAIN customers
                   THEN r.err = ErrNotFound
                   ELSE /\ r.err = Nil
                        /\ r.u.UserID = r.id
                        /\ r.u.Username = customers[id].username
                        /\ Translated(r.u.Addresses, customers[id].addresses)
                        /\ Translated(r.u.Cards, customers[id].cards)

\* A user with an address and a card has been returned.
C15_Witness ==
  \E p \in Procs :
    LET r == proc[p]
    IN /\ Done(p, "GetUser") /\ r.err = Nil
       /\ r.u.Addresses /= <<>> /\ r.u.Cards /= <<>>

ItemSet(items) == {items[i] : i \in 1..Len(items)}

\* C17: the id a successful CreateUser writes into the caller's user is well
\* formed; GetUser on it finds the user and returns the same id; and
\* GetUserAttributes on the user GetUser returns yields the nested addresses
\* and cards of the create, each with the id it was given at creation.
C17_IdRoundTrip ==
  \A p \in Procs :
    LET r == proc[p]
        uid == r.u.UserID
    IN Done(p, "CreateUser") /\ r.err = Nil =>
         /\ IsObjectIdHex(uid)
         /\ LET g == FindUser(ObjectIdHex(uid), TRUE)
            IN /\ g.err = Nil
               /\ g.u.UserID = uid
               /\ RefsWellFormed(g.u.Addresses) /\ RefsWellFormed(g.u.Cards)
               /\ LET as == Hydrate(addresses, RefIds(g.u.Addresses))
                      cs == Hydrate(cards, RefIds(g.u.Cards))
                  IN /\ Len(as) = Len(r.arg.Addresses)
                     /\ Len(cs) = Len(r.arg.Cards)
                     /\ ItemSet(as) = ItemSet(r.u.Addresses)
                     /\ ItemSet(cs) = ItemSet(r.u.Cards)
                     /\ \A i \in 1..Len(r.u.Addresses) :
                          /\ IsObjectIdHex(r.u.Addresses[i].ID)
                          /\ r.u.Addresses[i].data = r.arg.Addresses[i].data
                     /\ \A i \in 1..Len(r.u.Cards) :
                          /\ IsObjectIdHex(r.u.Cards[i].ID)
                          /\ r.u.Cards[i].data = r.arg.Cards[i].data

\* A user has been created with an address and a card.
C17_Witness ==
  \E p \in Procs :
    LET r == proc[p]
    IN /\ Done(p, "CreateUser") /\ r.err = Nil
       /\ r.arg.Addresses /= <<>> /\ r.arg.Cards /= <<>>

\* C18: once CreateUser has returned, the caller's user id is not empty
\* exactly when a user document of this call is stored, the return with the
\* combined error of the nested creations included.
C18_IdIffPersisted ==
  \A p \in Procs :
    LET r == proc[p]
    IN Done(p, "CreateUser") =>
         (r.u.UserID /= <<>> <=> r.mu.ID \in DOMAIN customers)

\* C19: the tracing context a storage operation reads is the context of the
\* request that invoked it.
C19_OwnTraceContext ==
  \A p \in Procs :
    proc[p].op \notin {"idle", "endpoint"} => proc[p].span = RequestContext(p)

\* C20: when CreateAddress or CreateCard for user uid and
\* Delete("customers", uid) run at the same time, the store failing no call,
\* and both have returned, the delete with nil, then the user is gone, no
\* user references the new entity, and the entity is still stored exactly
\* when the delete loaded the user before the link was written.
C20_OrphanAfterRace ==
  \A p, q \in Procs :
    LET c == proc[p]
        d == proc[q]
        a == c.mu.ID
        seen == IF c.op = "CreateCard" THEN d.u.Cards ELSE d.u.Addresses
    IN /\ c.op \in CreateOps /\ c.pc = "done" /\ IsObjectIdHex(c.userid)
       /\ c.err \in {Nil, ErrNotFound}
       /\ Done(q, "Delete") /\ d.entity = "customers" /\ d.id = c.userid
       /\ d.err = Nil
       => /\ ObjectIdHex(c.userid) \notin DOMAIN customers
          /\ \A x \in DOMAIN customers :
               a \notin Refs(customers[x], "addresses") \cup Refs(customers[x], "cards")
          /\ a \in DOMAIN Collection(AttrOf(c.op)) <=> Hex(a) \notin ItemIds(seen)
          /\ c.err = ErrNotFound => a \in DOMAIN Collection(AttrOf(c.op))

\* CreateAddress and the delete of its user have both returned nil, every
\* store call having done what it was asked: the user is gone and the new
\* address is stored.
C20_Witness ==
  \E p, q \in Procs :
    LET c == proc[p]
        d == proc[q]
    IN /\ Done(p, "CreateAddress") /\ c.err = Nil /\ AllOk(c.log)
       /\ Done(q, "Delete") /\ d.entity = "customers" /\ d.id = c.userid
       /\ d.err = Nil /\ AllOk(d.log)
       /\ ObjectIdHex(c.userid) \notin DOMAIN customers
       /\ c.mu.ID \in DOMAIN addresses
       /\ \A x \in DOMAIN customers :
            c.mu.ID \notin Refs(customers[x], "addresses")

\* Every reference of every stored user names a stored document.
NoDanglingReference ==
  \A x \in DOMAIN customers :
    /\ Refs(customers[x], "addresses") \subseteq DOMAIN addresses
    /\ Refs(customers[x], "cards") \subseteq DOMAIN cards

WriteOps == {"CreateUser", "CreateCard", "CreateAddress", "Delete"}

\* C21: with requests served one at a time and the store failing no call,
\* whenever a CreateUser, CreateCard, CreateAddress or Delete has returned,
\* and between requests, every id in a stored user's address or card
\* references is the id of a stored address or card.
C21_ReferentialIntegrity ==
  \A p \in SeqProcs :
    LET returned == proc[p].op \in WriteOps /\ proc[p].pc = "done"
        between == proc[p].pc \in {"idle", "endpoint"}
    IN (returned \/ between) => NoDanglingReference

\* The delete of a referenced address has returned nil, and its user still
\* references another address.
C21_Witness ==
  \E p \in SeqProcs :
    LET r == proc[p]
    IN /\ Done(p, "Delete") /\ r.entity = "addresses" /\ r.err = Nil
       /\ r.snap.owners /= {}
       /\ \E x \in r.snap.owners : Refs(customers[x], "addresses") /= {}

\* C22: with requests interleaving and the store failing no call, once
\* every request has returned, each Delete having been given the id of a
\* document that was stored when it started, every id in a stored user's
\* references is the id of a stored document.
C22_NoDanglingAtQuiescence ==
  /\ \A p \in Procs : proc[p].pc \in {"idle", "done"}
  /\ \A p \in Procs : proc[p].op = "Delete" => proc[p].snap.exists
  => NoDanglingReference

\* The ids a step adds to the reference lists of attr.
NewRefs(attr) ==
  UNION {Refs(customers'[x], attr)
           \ (IF x \in DOMAIN customers THEN Refs(customers[x], attr) ELSE {}) :
         x \in DOMAIN customers'}

\* Some call before the i-th of the log is the named call on coll.
Preceded(log, i, name, coll) == \E j \in Calls(log, name, coll) : j < i

\* C23: an id is written into a user's references only when the document it
\* names has been stored; Delete of a user asks for the removal of the user
\* document only after both bulk removals were asked for; Delete of an
\* address or card asks for the removal of the document only after the pull
\* from the users was asked for.
C23_WriteOrdering ==
  /\ [][/\ NewRefs("addresses") \subseteq DOMAIN addresses
        /\ NewRefs("cards") \subseteq DOMAIN cards]_vars
  /\ [](\A p \in Procs :
          LET r == proc[p]
          IN /\ r.op = "CreateUser" =>
                  \A i \in Calls(r.log, "upsert", "customers") :
                    /\ Range(r.mu.AddressIDs) \subseteq Created(SubSeq(r.log, 1, i - 1), "addresses")
                    /\ Range(r.mu.CardIDs) \subseteq Created(SubSeq(r.log, 1, i - 1), "cards")
             /\ r.op \in CreateOps =>
                  \A i \in Calls(r.log, "update", "customers") :
                    r.mu.ID \in Created(SubSeq(r.log, 1, i - 1), AttrOf(r.op))
             /\ r.op = "Delete" =>
                  \A i \in Calls(r.log, "remove", r.entity) :
                    IF r.entity = "customers"
                    THEN /\ Preceded(r.log, i, "removeAll", "addresses")
                         /\ Preceded(r.log, i, "removeAll", "cards")
                    ELSE Preceded(r.log, i, "updateAll", "customers"))

\* The delete of a referenced card has returned after a user was created
\* with an address.
C23_Witness ==
  \E p \in Procs :
    LET r == proc[p]
    IN /\ Done(p, "Delete") /\ r.entity = "cards" /\ r.err = Nil
       /\ r.snap.owners /= {}
       /\ \E x \in DOMAIN customers : Refs(customers[x], "addresses") /= {}

SameCall(c, d) == c.call = d.call /\ c.coll = d.coll /\ c.ids = d.ids

\* C24 as claimed: within one operation no store call is issued twice, and
\* the only calls made after a failed call are the compensating removals of
\* CreateUser and the steps of Delete that follow a bulk removal or a pull.
C24_NoRetryOnlyCompensation ==
  \A p \in Procs :
    LET r == proc[p]
    IN \A i, j \in 1..Len(r.log) :
         i < j =>
           /\ ~SameCall(r.log[i], r.log[j])
           /\ ~r.log[i].ok =>
                \/ r.op = "CreateUser" /\ r.log[j].call = "removeAll"
                \/ r.op = "Delete" /\ r.log[i].call \in {"removeAll", "updateAll"}

\* C24 amended: within one operation no store call is issued twice; the
\* calls made after a failed call are, in CreateUser, the creations of the
\* other kind of nested item, the upsert of the user and the compensating
\* removals, and in Delete the steps that follow a bulk removal or a pull.
C24_NoRetry ==
  \A p \in Procs :
    LET r == proc[p]
    IN \A i, j \in 1..Len(r.log) :
         i < j =>
           /\ ~SameCall(r.log[i], r.log[j])
           /\ ~r.log[i].ok =>
                \/ r.op = "CreateUser" /\ r.log[j].call = "removeAll"
                \/ /\ r.op = "CreateUser"
                   /\ r.log[i].call = "upsert" /\ r.log[i].coll /= "customers"
                   /\ r.log[j].call = "upsert" /\ r.log[j].coll /= r.log[i].coll
                \/ r.op = "Delete" /\ r.log[i].call \in {"removeAll", "updateAll"}

\* CreateUser has gone on after a failed card creation: it stored an
\* address and asked for the upsert of the user.
C24_Witness ==
  \E p \in Procs :
    LET r == proc[p]
    IN /\ Done(p, "CreateUser")
       /\ Failed(r.log, "upsert", "cards")
       /\ \E j \in Calls(r.log, "upsert", "addresses") : r.log[j].ok
       /\ Calls(r.log, "upsert", "customers") /= {}

\* How often id occurs in the reference lists of all stored users.
RefCount(id) ==
  Cardinality(
    UNION {{<<x, "addresses", i>> : i \in {j \in 1..Len(customers[x].addresses) :
                                              customers[x].addresses[j] = id}}
           \cup {<<x, "cards", i>> : i \in {j \in 1..Len(customers[x].cards) :
                                               customers[x].cards[j] = id}} :
           x \in DOMAIN customers})

\* C25: in every state, whatever the interleaving and whatever store calls
\* fail, an address or card id is in the references of at most one stored
\* user, and there at most once.
C25_ExclusiveOwnership == \A id \in KnownIds : RefCount(id) <= 1

\* Two users are stored, one of them referencing an entity, and a
\* CreateCard or CreateAddress for a user has linked its entity.
C25_Witness ==
  /\ Cardinality(DOMAIN customers) = 2
  /\ \E p \in Procs :
       /\ proc[p].op \in CreateOps /\ proc[p].pc = "done"
       /\ proc[p].err = Nil /\ proc[p].userid /= <<>>
       /\ RefCount(proc[p].mu.ID) = 1

\* C26: when GetUserAttributes returns an error, the caller's user value is
\* what it was when the call was made.
C26_UnchangedOnError ==
  \A p \in Procs :
    LET r == proc[p]
    IN Done(p, "GetUserAttributes") /\ r.err /= Nil => r.u = r.arg

====
